---- MODULE Spec2Model ----
(***************************************************************************)
(* MQTT remote control module of baresip (modules/mqtt/mqtt.c).            *)
(*                                                                         *)
(* Two threads: the transport library's callback thread runs               *)
(* mqtt_message_arrived, the engine thread runs mqueue_handler and         *)
(* ua_event_handler.  Strings are sequences of character codes; a C        *)
(* string is the sequence of its bytes before the terminating NUL.         *)
(***************************************************************************)
EXTENDS Integers, Sequences, FiniteSets, TLC

VARIABLES phase, initret, evreg, connected, crashed,
          mq, enqueued, delivered,
          outbound, sends, calls,
          play, held, cur, overrun,
          nmsg, nev, nlost, lastIn, lastEnv, lastEv,
          nalloc, closedAt

\* phase, initret, evreg: module lifecycle, the value module_init returned,
\*   whether ua_event_handler is registered
\* connected: MQTTClient_isConnected(mqtt.client); crashed: the process faulted
\* mq: the content of mqtt.mq; enqueued, delivered: the mqueue_push calls
\*   made and the commands handed to mqueue_handler, in order
\* outbound: the messages written to the broker; sends: the calls of
\*   mqtt_send_message; calls: the call-control operations invoked
\* play: mqtt.play; held: the alert sounds started and not released;
\*   cur: uag_current(); overrun: bytes written behind an allocation
\* nmsg, nev, nlost: messages, events and connection losses so far
\* lastIn: the latest inbound message; lastEnv: what the engine answered to
\*   the latest dispatched command; lastEv: the latest lifecycle event
\* nalloc: the argument strings allocated by the decoder and not freed
\* closedAt: the number of commands that had been enqueued when
\*   module_close ran
vars == <<phase, initret, evreg, connected, crashed, mq, enqueued, delivered,
          outbound, sends, calls, play, held, cur, overrun, nmsg, nev, nlost,
          lastIn, lastEnv, lastEv, nalloc, closedAt>>

-----------------------------------------------------------------------------
(* Bounds of the model *)

MaxMsgs == 2

MaxEvents == 2

MaxLosses == 1

MaxAccountLen == 33

-----------------------------------------------------------------------------
(* Program constants *)

MQ_CONNECT == 0
MQ_ANSWER == 1
MQ_HANGUP == 2
MQ_MUTE == 3
MQ_UNMUTE == 4
MQ_HOLD == 5
MQ_RESUME == 6
MQ_CALL_STATUS == 7
MQ_REGISTRATION_STATUS == 8

ArgBufSize == 32

\* "baresip/read"
ControlTopic == <<98, 97, 114, 101, 115, 105, 112, 47, 114, 101, 97, 100>>

\* "baresip/write"
ReplyTopic == <<98, 97, 114, 101, 115, 105, 112, 47, 119, 114, 105, 116, 101>>

-----------------------------------------------------------------------------
(* C strings and pointers *)

\* the byte at 1-based position i of a NUL-terminated string
CharAt(s, i) == IF i <= Len(s) THEN s[i] ELSE 0

RECURSIVE strncmp_from(_, _, _, _)
strncmp_from(a, b, i, n) ==
    IF i > n THEN 0
    ELSE IF CharAt(a, i) # CharAt(b, i) THEN CharAt(a, i) - CharAt(b, i)
    ELSE IF CharAt(a, i) = 0 THEN 0
    ELSE strncmp_from(a, b, i + 1, n)

\* strncmp(a, b, n): compares at most n bytes, stops at a NUL
strncmp(a, b, n) == strncmp_from(a, b, 1, n)

NullPtr == [null |-> TRUE, s |-> <<>>]

Ptr(str) == [null |-> FALSE, s |-> str]

-----------------------------------------------------------------------------
(* JSON documents as the parser sees them.  A payload is "garbage" (not   *)
(* JSON), a "scalar" (valid JSON that is not an object) or an "object"    *)
(* with the members command and account, each absent, a number or a       *)
(* string.                                                                 *)

JAbsent == [t |-> "absent", n |-> 0, s |-> <<>>]

JNum(k) == [t |-> "num", n |-> k, s |-> <<>>]

JStr(str) == [t |-> "str", n |-> 0, s |-> str]

\* cJSON_Parse: NULL on a syntax error, otherwise the item tree
cJSON_Parse(p) ==
    IF p.kind = "garbage" THEN [null |-> TRUE, doc |-> p]
    ELSE [null |-> FALSE, doc |-> p]

\* cJSON_GetObjectItem: NULL when the member is missing or json has no members;
\* a number item has valuestring NULL, a string item has valueint 0
cJSON_GetObjectItem(json, name) ==
    LET m == IF name = "command" THEN json.doc.command ELSE json.doc.account IN
    IF json.doc.kind # "object" \/ m.t = "absent"
    THEN [null |-> TRUE, valueint |-> 0, valuestring |-> NullPtr]
    ELSE IF m.t = "num"
    THEN [null |-> FALSE, valueint |-> m.n, valuestring |-> NullPtr]
    ELSE [null |-> FALSE, valueint |-> 0, valuestring |-> Ptr(m.s)]

-----------------------------------------------------------------------------
(* Outbound publisher *)

Msg_calling == "{ \"status\" : \"calling\" }"
Msg_ringing == "{ \"status\" : \"ringing\" }"
Msg_connected == "{ \"status\" : \"connected\" }"
Msg_closed == "{ \"status\" : \"closed\" }"
Msg_registered == "{ \"status\" : \"registered\" }"
Msg_unregistered == "{ \"status\" : \"unregistered\" }"
\* the reply to Mute carrying a result
Msg_mute_result == "{ \"event\" : \"mute\", \"success\" : \"true\" }"

Msg_mute == "{ \"event\" : \"mute\" }"
Msg_unmute == "{ \"event\" : \"unmute\" }"

\* get_event_message with "true" and "false" exchanged
get_event_message_inverted(event, result) ==
    "{ \"event\" : \"answer\", \"success\" : "
        \o (IF result = 0 THEN "\"false\" }" ELSE "\"true\" }")

\* the event parameter is not used: the text always starts with the answer event
get_event_message(event, result) ==
    "{ \"event\" : \"answer\", \"success\" : "
        \o (IF result = 0 THEN "\"true\" }" ELSE "\"false\" }")

\* mqtt_send_message without the test of MQTTClient_isConnected
mqtt_send_message_unchecked(out, conn, msg, th) ==
    Append(out, [topic |-> ReplyTopic, msg |-> msg, thread |-> th])

\* the outbound writes after mqtt_send_message(msg) called by thread th:
\* one publish on the reply topic when the client is connected, none otherwise
mqtt_send_message(out, conn, msg, th) ==
    IF conn
    THEN Append(out, [topic |-> ReplyTopic, msg |-> msg, thread |-> th])
    ELSE out

RECURSIVE SendAll(_, _, _, _)
SendAll(out, conn, msgs, th) ==
    IF msgs = <<>> THEN out
    ELSE SendAll(mqtt_send_message(out, conn, Head(msgs), th), conn, Tail(msgs), th)

\* the record of the calls of mqtt_send_message, in call order
SendLog(msgs, conn, th) ==
    [i \in 1..Len(msgs) |-> [msg |-> msgs[i], thread |-> th, conn |-> conn]]

-----------------------------------------------------------------------------
(* Command queue *)

Cmd(id, data) == [id |-> id, data |-> data]

\* mqueue_push: the message is written at the tail of the queue's pipe
mqueue_push(q, id, data) == Append(q, Cmd(id, data))

\* the argument strings allocated for the commands cmds: one malloc for each
\* command pushed with an argument
Allocated(cmds) == Cardinality({i \in 1..Len(cmds) : ~cmds[i].data.null})

RECURSIVE PushAll(_, _)
PushAll(q, cmds) ==
    IF cmds = <<>> THEN q
    ELSE PushAll(mqueue_push(q, Head(cmds).id, Head(cmds).data), Tail(cmds))

-----------------------------------------------------------------------------
(* Inbound command decoder: what one branch of the decoder does.  push are *)
(* the commands handed to mqueue_push, send the texts handed to            *)
(* mqtt_send_message, engine the call-control operations invoked, over the *)
(* bytes written past the end of an allocation, crash a fault.             *)

Eff(push, send) ==
    [push |-> push, send |-> send, engine |-> <<>>, over |-> 0, crash |-> FALSE]

Fault(n) ==
    [push |-> <<>>, send |-> <<>>, engine |-> <<>>, over |-> n, crash |-> TRUE]

EngineCall(op, ua, uri, flag) == [op |-> op, ua |-> ua, uri |-> uri, flag |-> flag]

\* the bytes a neighbouring allocation may leave behind the argument buffer
TailBytes == {<<>>, <<63>>}

\* arg = malloc(32); strcpy(arg, src): the possible contents of arg
\* afterwards.  strcpy writes Len(src) + 1 bytes; what does not fit is
\* written behind the storage, where it is kept, overwritten, or detected.
StrcpyArg(src) ==
    LET n == Len(src) + 1 IN
    IF n <= ArgBufSize
    THEN {[s |-> src, over |-> 0, crash |-> FALSE]}
    ELSE {[s |-> src, over |-> n - ArgBufSize, crash |-> FALSE]}
         \cup {[s |-> SubSeq(src, 1, ArgBufSize) \o t, over |-> n - ArgBufSize,
                crash |-> FALSE] : t \in TailBytes}
         \cup {[s |-> <<>>, over |-> k, crash |-> TRUE] : k \in {0, n - ArgBufSize}}

CaseAnswer == {Eff(<<Cmd(MQ_ANSWER, NullPtr)>>, <<>>)}

CaseHangup == {Eff(<<Cmd(MQ_HANGUP, NullPtr)>>, <<>>)}

\* case 'd' without the test of valuestring[0]
CaseConnect_nocheck(json) ==
    LET item == cJSON_GetObjectItem(json, "account") IN
    IF ~item.null
    THEN IF ~item.valuestring.null
         THEN {IF c.crash THEN Fault(c.over)
               ELSE [Eff(<<Cmd(MQ_CONNECT, Ptr(c.s))>>, <<>>) EXCEPT !.over = c.over]
                  : c \in StrcpyArg(item.valuestring.s)}
         ELSE {Eff(<<>>, <<>>)}
    ELSE {Eff(<<>>, <<>>)}

CaseConnect(json) ==
    LET item == cJSON_GetObjectItem(json, "account") IN
    IF ~item.null
    THEN IF ~item.valuestring.null /\ CharAt(item.valuestring.s, 1) # 0
         THEN {IF c.crash THEN Fault(c.over)
               ELSE [Eff(<<Cmd(MQ_CONNECT, Ptr(c.s))>>, <<>>) EXCEPT !.over = c.over]
                  : c \in StrcpyArg(item.valuestring.s)}
         ELSE {Eff(<<>>, <<>>)}
    ELSE {Eff(<<>>, <<>>)}

\* case 'u' unmuting from the callback instead of queueing the command
CaseUnmute_direct ==
    {[Eff(<<>>, <<"audio unmuted">>) EXCEPT
        !.engine = <<EngineCall("audio_mute", "current", NullPtr, FALSE)>>]}

CaseUnmute == {Eff(<<Cmd(MQ_UNMUTE, NullPtr)>>, <<"audio unmuted">>)}

CaseMute == {Eff(<<Cmd(MQ_MUTE, NullPtr)>>, <<"audio muted">>)}

CaseHold == {Eff(<<Cmd(MQ_HOLD, NullPtr)>>, <<>>)}

CaseResume == {Eff(<<Cmd(MQ_RESUME, NullPtr)>>, <<>>)}

CaseCallStatus == {Eff(<<Cmd(MQ_CALL_STATUS, NullPtr)>>, <<>>)}

CaseRegistrationStatus == {Eff(<<Cmd(MQ_REGISTRATION_STATUS, NullPtr)>>, <<>>)}

\* a default label that falls into a push
CaseDefault_push == {Eff(<<Cmd(MQ_REGISTRATION_STATUS, NullPtr)>>, <<>>)}

CaseDefault == {Eff(<<>>, <<>>)}

\* switch (cmd)
SwitchCmd(cmd, json) ==
    CASE cmd = 97  -> CaseAnswer
      [] cmd = 98  -> CaseHangup
      [] cmd = 100 -> CaseConnect(json)
      [] cmd = 117 -> CaseUnmute
      [] cmd = 109 -> CaseMute
      [] cmd = 104 -> CaseHold
      [] cmd = 114 -> CaseResume
      [] cmd = 115 -> CaseCallStatus
      [] cmd = 112 -> CaseRegistrationStatus
      [] OTHER     -> CaseDefault

\* the values a read through the NULL item pointer may yield where it does
\* not fault
WildInts == {0, 97, 98, 109}

\* cmd = cJSON_GetObjectItem(json, "command")->valueint: the item pointer is
\* dereferenced unchecked
ReadCommand(json) ==
    LET item == cJSON_GetObjectItem(json, "command") IN
    IF item.null
    THEN [fault |-> TRUE, vals |-> WildInts]
    ELSE [fault |-> FALSE, vals |-> {item.valueint}]

\* the body of the topic branch: parse, read the command, switch
Decode(payload) ==
    LET json == cJSON_Parse(payload) IN
    IF ~json.null
    THEN LET r == ReadCommand(json) IN
         (IF r.fault THEN {Fault(0)} ELSE {})
            \cup UNION {SwitchCmd(c, json) : c \in r.vals}
    ELSE {Eff(<<>>, <<>>)}

\* if (!strncmp(topicName, "baresip/read", topicLen))
TopicMatches(topicName, topicLen) == strncmp(topicName, ControlTopic, topicLen) = 0

-----------------------------------------------------------------------------
(* Engine thread: lifecycle events *)

NoUA == "none"

UAs == {"ua1", "ua2"}

NoPlay == [file |-> "", repeat |-> 0]

\* play_file(&mqtt.play, player, file, repeat)
play_file(file, repeat) == [file |-> file, repeat |-> repeat]

\* translate_errorcode without the case of 487
translate_errorcode_no487(scode) ==
    CASE scode = 404 -> "notfound.wav"
      [] scode = 486 -> "busy.wav"
      [] OTHER       -> "error.wav"

\* the tone of a status code, "" for none
translate_errorcode(scode) ==
    CASE scode = 404 -> "notfound.wav"
      [] scode = 486 -> "busy.wav"
      [] scode = 487 -> ""
      [] OTHER       -> "error.wav"

EventKinds == {"CALL_INCOMING", "CALL_RINGING", "CALL_ESTABLISHED", "CALL_CLOSED",
               "REGISTER_OK", "UNREGISTERING", "CALL_PROGRESS"}

\* the operations on the alert handle mqtt.play
Release == [op |-> "release", file |-> "", repeat |-> 0]

Start(file, repeat) == [op |-> "start", file |-> file, repeat |-> repeat]

RECURSIVE ApplyAlert(_, _, _)
\* the handle and the number of alerts held after the operations ops.
\* mem_deref(mqtt.play) stops the alert the handle refers to, if any, and
\* clears the handle; play_file starts a new alert and stores it in the
\* handle, whatever the handle referred to (the files are taken to exist).
ApplyAlert(ops, p, h) ==
    IF ops = <<>> THEN [play |-> p, held |-> h]
    ELSE IF Head(ops).op = "release"
         THEN ApplyAlert(Tail(ops), NoPlay, IF p = NoPlay THEN h ELSE h - 1)
         ELSE ApplyAlert(Tail(ops), play_file(Head(ops).file, Head(ops).repeat), h + 1)

\* case UA_EVENT_CALL_INCOMING leaving the alert that is playing
EvIncoming_keep(ua, manual, ncalls) ==
    [cur |-> ua,
     alert |-> IF manual
               THEN IF ncalls > 1 THEN <<Release, Start("callwaiting.wav", 3)>>
                    ELSE <<Release, Start("ring.wav", -1)>>
               ELSE <<>>,
     send |-> IF manual /\ ~(ncalls > 1) THEN <<Msg_calling>> ELSE <<>>]

\* case UA_EVENT_CALL_INCOMING
EvIncoming(ua, manual, ncalls) ==
    [cur |-> ua,
     alert |-> <<Release>> \o
               (IF manual
                THEN IF ncalls > 1 THEN <<Start("callwaiting.wav", 3)>>
                     ELSE <<Start("ring.wav", -1)>>
                ELSE <<>>),
     send |-> IF manual /\ ~(ncalls > 1) THEN <<Msg_calling>> ELSE <<>>]

\* case UA_EVENT_CALL_RINGING starting the ringback over the alert held
EvRinging_norelease(oldcur) ==
    [cur |-> oldcur, alert |-> <<Start("ringback.wav", -1)>>,
     send |-> <<Msg_ringing>>]

\* case UA_EVENT_CALL_RINGING
EvRinging(oldcur) ==
    [cur |-> oldcur, alert |-> <<Release, Start("ringback.wav", -1)>>,
     send |-> <<Msg_ringing>>]

\* case UA_EVENT_CALL_ESTABLISHED sending a second status
EvEstablished_extra(oldcur) ==
    [cur |-> oldcur, alert |-> <<Release>>, send |-> <<Msg_connected, Msg_ringing>>]

\* case UA_EVENT_CALL_ESTABLISHED
EvEstablished(oldcur) ==
    [cur |-> oldcur, alert |-> <<Release>>, send |-> <<Msg_connected>>]

\* case UA_EVENT_CALL_CLOSED
EvClosed(scode, oldcur) ==
    [cur |-> oldcur,
     alert |-> <<Release>> \o
               (IF scode # 0 /\ translate_errorcode(scode) # ""
                THEN <<Start(translate_errorcode(scode), 1)>>
                ELSE <<>>),
     send |-> <<Msg_closed>>]

\* ua_event_handler(ua, ev, call, ...): the new current user-agent, the
\* operations on the alert handle and the texts sent.  manual is the
\* account's answer mode, ncalls the number of calls of ua, scode the status
\* code of the call.
ua_event_handler(ua, ev, manual, ncalls, scode, oldcur) ==
    CASE ev = "CALL_INCOMING" -> EvIncoming(ua, manual, ncalls)
      [] ev = "CALL_RINGING" -> EvRinging(oldcur)
      [] ev = "CALL_ESTABLISHED" -> EvEstablished(oldcur)
      [] ev = "CALL_CLOSED" -> EvClosed(scode, oldcur)
      [] ev = "REGISTER_OK" ->
           [cur |-> oldcur, alert |-> <<>>, send |-> <<Msg_registered>>]
      [] ev = "UNREGISTERING" ->
           [cur |-> oldcur, alert |-> <<>>, send |-> <<Msg_unregistered>>]
      [] OTHER ->
           [cur |-> oldcur, alert |-> <<>>, send |-> <<>>]

-----------------------------------------------------------------------------
(* Engine thread: command dispatcher *)

\* the engine's answers to the dispatcher: an absent target is refused with
\* EINVAL (22)
ua_call(ua, hascall) == IF ua = NoUA THEN "none" ELSE IF hascall THEN "call" ELSE "none"

ua_hold_answer(ua, ret) == IF ua = NoUA THEN 22 ELSE ret

call_hold(call, ret) == IF call = "none" THEN 22 ELSE ret

\* mqueue_handler(id, data, arg): whether data is freed, whether the alert
\* is released, the engine operations invoked and the texts sent.  ua is
\* uag_current(), hascall, ret and nua are the engine's answers.
mqueue_handler(id, data, ua, hascall, ret, nua) ==
    CASE id = MQ_ANSWER ->
           [free |-> FALSE, stop |-> TRUE,
            engine |-> <<EngineCall("ua_hold_answer", ua, NullPtr, FALSE)>>,
            send |-> <<get_event_message("answer", ua_hold_answer(ua, ret))>>]
      [] id = MQ_HANGUP ->
           [free |-> FALSE, stop |-> TRUE,
            engine |-> <<EngineCall("ua_hangup", ua, NullPtr, FALSE)>>,
            send |-> <<>>]
      [] id = MQ_CONNECT ->
           [free |-> FALSE, stop |-> FALSE,
            engine |-> <<EngineCall("ua_connect", ua, data, FALSE)>>,
            send |-> <<>>]
      [] id = MQ_MUTE ->
           [free |-> FALSE, stop |-> FALSE,
            engine |-> <<EngineCall("audio_mute", ua_call(ua, hascall), NullPtr, TRUE)>>,
            send |-> <<Msg_mute>>]
      [] id = MQ_UNMUTE ->
           [free |-> FALSE, stop |-> FALSE,
            engine |-> <<EngineCall("audio_mute", ua_call(ua, hascall), NullPtr, FALSE)>>,
            send |-> <<Msg_unmute>>]
      [] id = MQ_HOLD ->
           [free |-> FALSE, stop |-> FALSE,
            engine |-> <<EngineCall("call_hold", ua_call(ua, hascall), NullPtr, TRUE)>>,
            send |-> <<get_event_message("hold", call_hold(ua_call(ua, hascall), ret))>>]
      [] id = MQ_RESUME ->
           [free |-> FALSE, stop |-> FALSE,
            engine |-> <<EngineCall("call_hold", ua_call(ua, hascall), NullPtr, FALSE)>>,
            send |-> <<get_event_message("resume", call_hold(ua_call(ua, hascall), ret))>>]
      [] id = MQ_CALL_STATUS ->
           [free |-> FALSE, stop |-> FALSE, engine |-> <<>>,
            send |-> <<get_event_message("active_call",
                          IF ua_call(ua, hascall) = "none" THEN 1 ELSE 0)>>]
      [] id = MQ_REGISTRATION_STATUS ->
           [free |-> FALSE, stop |-> FALSE, engine |-> <<>>,
            send |-> <<get_event_message("registered", IF nua = 0 THEN 1 ELSE 0)>>]
      [] OTHER ->
           [free |-> FALSE, stop |-> FALSE, engine |-> <<>>,
            send |-> <<>>]

\* the alert operation of a handler that releases the alert or leaves it
StopAlert(stop) == IF stop THEN <<Release>> ELSE <<>>

\* what the engine answered to the dispatcher: whether the current
\* user-agent has a call, the result of the operation, the number of
\* user-agents and the number of them that are registered
Env(hascall, ret, nua, nreg) ==
    [hascall |-> hascall, ret |-> ret, nua |-> nua, nreg |-> nreg]

\* the engine operations of eng as made by thread th
Tagged(eng, th) ==
    [i \in 1..Len(eng) |-> [op |-> eng[i].op, ua |-> eng[i].ua, uri |-> eng[i].uri,
                            flag |-> eng[i].flag, thread |-> th]]

-----------------------------------------------------------------------------
(* Inputs *)

\* "baresip", a proper prefix of the control topic
PrefixTopic == SubSeq(ControlTopic, 1, 7)

\* "baresip/read/x"
LongerTopic == ControlTopic \o <<47, 120>>

Topics == {ControlTopic, PrefixTopic, ReplyTopic, LongerTopic}

\* the transport passes 0 for a topic without embedded NUL bytes
TopicLens(t) == {0, Len(t)}

AccountStr(n) == [i \in 1..n |-> 97 + ((i - 1) % 26)]

AccountLens == {1, ArgBufSize - 1} \cup (ArgBufSize..MaxAccountLen)

Garbage == [kind |-> "garbage", command |-> JAbsent, account |-> JAbsent]

Scalar == [kind |-> "scalar", command |-> JAbsent, account |-> JAbsent]

Obj(c, a) == [kind |-> "object", command |-> c, account |-> a]

ValidCodes == {97, 98, 100, 117, 109, 104, 114, 115, 112}

CmdInts == ValidCodes \cup {0, 120}

CommandVals == {JAbsent, JStr(<<97>>)} \cup {JNum(k) : k \in CmdInts}

AccountVals == {JAbsent, JNum(5), JStr(<<>>)} \cup {JStr(AccountStr(n)) : n \in AccountLens}

Payloads ==
    {Garbage, Scalar}
        \cup {Obj(c, JAbsent) : c \in CommandVals}
        \cup {Obj(JNum(100), a) : a \in AccountVals}
        \cup {Obj(c, JStr(AccountStr(1))) : c \in {JAbsent, JNum(97)}}

OtherPayloads == {Obj(JNum(97), JAbsent), Obj(JNum(100), JStr(AccountStr(1)))}

\* every payload on the control topic; two payloads for the other topics and
\* for the control topic delivered with its length
Inbound ==
    {[topic |-> ControlTopic, topicLen |-> 0, payload |-> p] : p \in Payloads}
    \cup {[topic |-> ControlTopic, topicLen |-> Len(ControlTopic), payload |-> p] :
            p \in OtherPayloads}
    \cup UNION {{[topic |-> t, topicLen |-> n, payload |-> p] :
                    n \in TopicLens(t),
                    p \in OtherPayloads} :
                t \in Topics \ {ControlTopic}}

\* the well-formed commands the broker sends in normal operation
Commands ==
    {[topic |-> ControlTopic, topicLen |-> 0, payload |-> p] :
        p \in {Obj(JNum(117), JAbsent), Obj(JNum(100), JStr(AccountStr(1)))}}

\* one command of each of the nine kinds
EngineCommands ==
    {[topic |-> ControlTopic, topicLen |-> 0,
      payload |-> Obj(JNum(c), IF c = 100 THEN JStr(AccountStr(1)) ELSE JAbsent)] :
        c \in ValidCodes}

StatusCodes == {0, 404, 486, 487, 500}

Event(ua, ev, manual, ncalls, scode) ==
    [ua |-> ua, ev |-> ev, manual |-> manual, ncalls |-> ncalls, scode |-> scode]

\* an incoming call that rings
SomeEvents ==
    {Event("ua2", "CALL_INCOMING", TRUE, 1, 0)}

\* every kind of event; the incoming call of a user-agent that is not the
\* current one, in either answer mode, as its only call or its second; the
\* closed call with each status code
AllEvents ==
    {Event(u, "CALL_INCOMING", m, n, 0) : u \in UAs \ {"ua1"}, m \in BOOLEAN, n \in {1, 2}}
        \cup {Event("ua1", "CALL_CLOSED", TRUE, 1, c) : c \in StatusCodes}
        \cup {Event("ua1", k, TRUE, 1, 0) :
                 k \in EventKinds \ {"CALL_INCOMING", "CALL_CLOSED"}}

\* a command that releases the alert and one that leaves it
AlertCommands ==
    {[topic |-> ControlTopic, topicLen |-> 0, payload |-> p] :
        p \in {Obj(JNum(97), JAbsent), Obj(JNum(100), JStr(AccountStr(1)))}}

-----------------------------------------------------------------------------
(* State machine *)

Init ==
    /\ phase = "init"
    /\ initret = 0
    /\ evreg = FALSE
    /\ connected = FALSE
    /\ crashed = FALSE
    /\ mq = <<>>
    /\ enqueued = <<>>
    /\ delivered = <<>>
    /\ outbound = <<>>
    /\ sends = <<>>
    /\ calls = <<>>
    /\ play = NoPlay
    /\ held = 0
    /\ cur \in {NoUA, "ua1"}
    /\ overrun = 0
    /\ nmsg = 0
    /\ nev = 0
    /\ nlost = 0
    /\ lastIn = [topic |-> <<>>, topicLen |-> 0, payload |-> Garbage]
    /\ lastEnv = Env(FALSE, 0, 0, 0)
    /\ lastEv = Event(NoUA, "", FALSE, 0, 0)
    /\ nalloc = 0
    /\ closedAt = 0

\* module_init: only a failed queue allocation returns early; the value
\* returned otherwise is the result of MQTTClient_connect.  The arguments are
\* the results of mqueue_alloc, uag_event_register (0 or ENOMEM, 12) and
\* MQTTClient_connect (MQTTCLIENT_SUCCESS, 0, or MQTTCLIENT_FAILURE, -1).
module_init(allocErr, regErr, connErr) ==
    /\ phase = "init"
    /\ IF allocErr # 0
       THEN /\ phase' = "aborted"
            /\ initret' = allocErr
            /\ UNCHANGED <<evreg, connected>>
       ELSE /\ phase' = "loaded"
            /\ evreg' = (regErr = 0)
            /\ connected' = (connErr = 0)
            /\ initret' = connErr
    /\ UNCHANGED <<crashed, mq, enqueued, delivered, outbound, sends, calls,
                   play, held, cur, overrun, nmsg, nev, nlost, lastIn, lastEnv,
                   lastEv, nalloc, closedAt>>

\* module_close: the event handler is unregistered and the alert released;
\* the queue and the transport client stay as they are
module_close ==
    /\ phase = "loaded"
    /\ ~crashed
    /\ phase' = "closed"
    /\ evreg' = FALSE
    /\ play' = ApplyAlert(<<Release>>, play, held).play
    /\ held' = ApplyAlert(<<Release>>, play, held).held
    /\ closedAt' = Len(enqueued)
    /\ UNCHANGED <<initret, connected, crashed, mq, enqueued, delivered, outbound,
                   sends, calls, cur, overrun, nmsg, nev, nlost, lastIn, lastEnv,
                   lastEv, nalloc>>

\* the transport delivers messages once the client connected and subscribed
Subscribed == phase \in {"loaded", "closed"} /\ initret = 0

\* mqtt_message_arrived handing the decoded command to the handler at once,
\* on its own thread, instead of pushing it on the queue
mqtt_message_arrived_inline(topicName, topicLen, message) ==
    /\ Subscribed
    /\ ~crashed
    /\ nmsg < MaxMsgs
    /\ \E eff \in (IF TopicMatches(topicName, topicLen)
                   THEN Decode(message) ELSE {Eff(<<>>, <<>>)}) :
          LET h == IF eff.push = <<>>
                   THEN [free |-> FALSE, stop |-> FALSE, engine |-> <<>>,
            send |-> <<>>]
                   ELSE mqueue_handler(eff.push[1].id, eff.push[1].data, cur,
                                       FALSE, 0, 0)
              a == ApplyAlert(StopAlert(h.stop), play, held)
          IN /\ delivered' = delivered \o eff.push
             /\ play' = a.play
             /\ held' = a.held
             /\ nalloc' = nalloc + Allocated(eff.push) - (IF h.free THEN 1 ELSE 0)
             /\ outbound' = SendAll(outbound, connected, eff.send \o h.send, "transport")
             /\ sends' = sends \o SendLog(eff.send \o h.send, connected, "transport")
             /\ calls' = calls \o Tagged(h.engine, "transport")
             /\ overrun' = overrun + eff.over
             /\ crashed' = eff.crash
    /\ nmsg' = nmsg + 1
    /\ lastIn' = [topic |-> topicName, topicLen |-> topicLen, payload |-> message]
    /\ UNCHANGED <<phase, initret, evreg, connected, mq, enqueued, cur, nev, nlost,
                   lastEnv, lastEv, closedAt>>

\* mqtt_message_arrived on the transport thread (calloc and malloc are
\* taken to succeed)
mqtt_message_arrived(topicName, topicLen, message) ==
    /\ Subscribed
    /\ ~crashed
    /\ nmsg < MaxMsgs
    /\ \E eff \in (IF TopicMatches(topicName, topicLen)
                   THEN Decode(message) ELSE {Eff(<<>>, <<>>)}) :
          /\ mq' = PushAll(mq, eff.push)
          /\ enqueued' = enqueued \o eff.push
          /\ nalloc' = nalloc + Allocated(eff.push)
          /\ outbound' = SendAll(outbound, connected, eff.send, "transport")
          /\ sends' = sends \o SendLog(eff.send, connected, "transport")
          /\ calls' = calls \o Tagged(eff.engine, "transport")
          /\ overrun' = overrun + eff.over
          /\ crashed' = eff.crash
    /\ nmsg' = nmsg + 1
    /\ lastIn' = [topic |-> topicName, topicLen |-> topicLen, payload |-> message]
    /\ UNCHANGED <<phase, initret, evreg, connected, delivered, play, held, cur,
                   nev, nlost, lastEnv, lastEv, closedAt>>

\* the engine thread takes the message at the head of the queue and runs
\* the handler registered with mqueue_alloc
MqueueDeliver(hascall, ret, nua, nreg) ==
    /\ phase \in {"loaded", "closed"}
    /\ ~crashed
    /\ mq # <<>>
    /\ cur = NoUA => ~hascall
    /\ cur # NoUA => nua >= 1
    /\ nreg <= nua
    /\ LET m == Head(mq)
           h == mqueue_handler(m.id, m.data, cur, hascall, ret, nua)
           a == ApplyAlert(StopAlert(h.stop), play, held)
       IN /\ mq' = Tail(mq)
          /\ delivered' = Append(delivered, m)
          /\ play' = a.play
          /\ held' = a.held
          /\ nalloc' = nalloc - (IF h.free THEN 1 ELSE 0)
          /\ calls' = calls \o Tagged(h.engine, "engine")
          /\ outbound' = SendAll(outbound, connected, h.send, "engine")
          /\ sends' = sends \o SendLog(h.send, connected, "engine")
    /\ lastEnv' = Env(hascall, ret, nua, nreg)
    /\ UNCHANGED <<phase, initret, evreg, connected, crashed, enqueued, cur,
                   overrun, nmsg, nev, nlost, lastIn, lastEv, closedAt>>

\* the engine delivers a lifecycle event to the registered handler
UaEvent(ua, ev, manual, ncalls, scode) ==
    /\ phase = "loaded"
    /\ evreg
    /\ ~crashed
    /\ nev < MaxEvents
    /\ LET h == ua_event_handler(ua, ev, manual, ncalls, scode, cur)
           a == ApplyAlert(h.alert, play, held)
       IN /\ cur' = h.cur
          /\ play' = a.play
          /\ held' = a.held
          /\ outbound' = SendAll(outbound, connected, h.send, "engine")
          /\ sends' = sends \o SendLog(h.send, connected, "engine")
    /\ nev' = nev + 1
    /\ lastEv' = Event(ua, ev, manual, ncalls, scode)
    /\ UNCHANGED <<nlost, phase, initret, evreg, connected, crashed, mq, enqueued,
                   delivered, calls, overrun, nmsg, lastIn, lastEnv, nalloc,
                   closedAt>>

\* mqtt_connection_lost: the loss is logged
mqtt_connection_lost ==
    /\ phase \in {"loaded", "closed"}
    /\ ~crashed
    /\ connected
    /\ nlost < MaxLosses
    /\ connected' = FALSE
    /\ nlost' = nlost + 1
    /\ UNCHANGED <<phase, initret, evreg, crashed, mq, enqueued, delivered,
                   outbound, sends, calls, play, held, cur, overrun, nmsg, nev,
                   lastIn, lastEnv, lastEv, nalloc, closedAt>>

\* the transport re-establishes a connection it had lost
TransportReconnect ==
    /\ Subscribed
    /\ ~crashed
    /\ ~connected
    /\ connected' = TRUE
    /\ UNCHANGED <<phase, initret, evreg, crashed, mq, enqueued, delivered,
                   outbound, sends, calls, play, held, cur, overrun, nmsg, nev,
                   nlost, lastIn, lastEnv, lastEv, nalloc, closedAt>>

Next ==
    \/ \E a \in {0, 12}, r \in {0, 12}, c \in {0, -1} :
          module_init(a, r, c)
    \/ module_close
    \/ \E i \in Commands : mqtt_message_arrived(i.topic, i.topicLen, i.payload)
    \/ MqueueDeliver(cur # NoUA, 0, 1, 1)
    \/ \E e \in SomeEvents : UaEvent(e.ua, e.ev, e.manual, e.ncalls, e.scode)
    \/ mqtt_connection_lost
    \/ TransportReconnect

Spec == Init /\ [][Next]_vars

\* the decoder and the dispatcher alone, on every kind of inbound message
NextDecoder ==
    \/ \E c \in {0, -1} : module_init(0, 0, c)
    \/ \E i \in Inbound : mqtt_message_arrived(i.topic, i.topicLen, i.payload)
    \/ \E hascall \in BOOLEAN : MqueueDeliver(hascall, 0, 1, 1)

SpecDecoder == Init /\ [][NextDecoder]_vars

\* the dispatcher on each of the nine commands, with every answer of the
\* engine
NextDispatch ==
    \/ module_init(0, 0, 0)
    \/ \E i \in EngineCommands : mqtt_message_arrived(i.topic, i.topicLen, i.payload)
    \/ \E hascall \in BOOLEAN, ret \in {0, 22}, nua \in {0, 1}, nreg \in {0, 1} :
          MqueueDeliver(hascall, ret, nua, nreg)

SpecDispatch == Init /\ [][NextDispatch]_vars

\* every lifecycle event, between commands that act on the alert
NextEvents ==
    \/ module_init(0, 0, 0)
    \/ \E i \in AlertCommands : mqtt_message_arrived(i.topic, i.topicLen, i.payload)
    \/ MqueueDeliver(cur # NoUA, 0, 1, 1)
    \/ \E e \in AllEvents : UaEvent(e.ua, e.ev, e.manual, e.ncalls, e.scode)

SpecEvents == Init /\ [][NextEvents]_vars

-----------------------------------------------------------------------------
(* Command queue and threads *)

C3_TransportNeverPublishes ==
    \A i \in 1..Len(sends) : sends[i].thread = "engine"

-----------------------------------------------------------------------------
(* Outbound publisher *)

RECURSIVE WrittenBy(_)
\* the outbound writes of a log of mqtt_send_message calls if exactly the
\* calls made while connected are written, each once, at the time of the call
WrittenBy(log) ==
    IF log = <<>> THEN <<>>
    ELSE LET l == log[Len(log)]
             front == WrittenBy(SubSeq(log, 1, Len(log) - 1))
         IN IF l.conn
            THEN Append(front, [topic |-> ReplyTopic, msg |-> l.msg, thread |-> l.thread])
            ELSE front

\* C10: a message handed to mqtt_send_message while the transport is not
\* connected causes no outbound write, then or later, and no fault: the
\* outbound writes are exactly the messages sent while connected.
C10_DisconnectedPublishDropped == outbound = WrittenBy(sends) /\ ~crashed

\* a message was dropped while disconnected, the transport reconnected, and
\* a later message was published
C10_Witness ==
    /\ connected
    /\ \E i \in 1..Len(sends) : \E j \in (i + 1)..Len(sends) :
          ~sends[i].conn /\ sends[j].conn
    /\ Len(outbound) < Len(sends)

-----------------------------------------------------------------------------
(* Inbound command decoder *)

\* the command table of the interface: code -> command
MappedCommand(code) ==
    CASE code = 97  -> MQ_ANSWER
      [] code = 98  -> MQ_HANGUP
      [] code = 100 -> MQ_CONNECT
      [] code = 117 -> MQ_UNMUTE
      [] code = 109 -> MQ_MUTE
      [] code = 104 -> MQ_HOLD
      [] code = 114 -> MQ_RESUME
      [] code = 115 -> MQ_CALL_STATUS
      [] code = 112 -> MQ_REGISTRATION_STATUS

NonEmptyString(v) == v.t = "str" /\ v.s # <<>>

\* a payload {"command": <one of the nine codes>}, with a non-empty
\* "account" for code 'd'
WellFormed(p) ==
    /\ p.kind = "object"
    /\ p.command.t = "num"
    /\ p.command.n \in ValidCodes
    /\ p.command.n = 100 => NonEmptyString(p.account)

\* C4: decoding a well-formed payload with one of the nine command codes
\* on the control topic enqueues exactly one command, the mapped one.
C4_ValidCodeEnqueuesMapped ==
    [][(nmsg' = nmsg + 1 /\ lastIn'.topic = ControlTopic /\ WellFormed(lastIn'.payload))
        => /\ Len(enqueued') = Len(enqueued) + 1
           /\ SubSeq(enqueued', 1, Len(enqueued)) = enqueued
           /\ enqueued'[Len(enqueued')].id = MappedCommand(lastIn'.payload.command.n)
           /\ mq' = Append(mq, enqueued'[Len(enqueued')])]_vars

\* not JSON, or JSON without a "command" member
Undecodable(p) == p.kind = "garbage" \/ p.kind = "scalar" \/ p.command.t = "absent"

\* C5: a payload that is not valid JSON, or lacks the "command" member, is
\* dropped: nothing is enqueued and the decoder does not fault.
C5_UndecodableDropped ==
    [][(nmsg' = nmsg + 1 /\ Undecodable(lastIn'.payload))
        => (enqueued' = enqueued /\ mq' = mq /\ ~crashed')]_vars

\* a "command" member that is not one of the nine codes
UnknownCode(p) ==
    /\ p.kind = "object"
    /\ p.command.t # "absent"
    /\ p.command.t = "num" => p.command.n \notin ValidCodes

\* C6: decoding a payload with an unrecognized command code enqueues
\* nothing and changes neither the queue nor any other state of the module.
C6_UnknownCodeNoEffect ==
    [][(nmsg' = nmsg + 1 /\ UnknownCode(lastIn'.payload))
        => UNCHANGED <<phase, initret, evreg, connected, crashed, mq, enqueued,
                       delivered, outbound, sends, calls, play, held, cur,
                       overrun, nalloc>>]_vars

\* an unknown code arrived on the control topic while a command was queued
C6_Witness ==
    /\ nmsg >= 1
    /\ lastIn.topic = ControlTopic
    /\ lastIn.payload = Obj(JNum(120), JAbsent)
    /\ mq # <<>>

\* an "account" member that is absent, not a string, or the empty string
NoAccount(v) == v.t = "absent" \/ v.t = "num" \/ (v.t = "str" /\ v.s = <<>>)

HasDestination(ptr) == ~ptr.null /\ ptr.s # <<>>

\* C7: a Connect command without a non-empty "account" string enqueues
\* nothing; every Connect command enqueued carries a non-empty destination
\* and ua_connect is never called with an empty or absent URI.
C7_ConnectNeedsAccount ==
    /\ [](/\ \A i \in 1..Len(enqueued) :
                enqueued[i].id = MQ_CONNECT => HasDestination(enqueued[i].data)
          /\ \A i \in 1..Len(calls) :
                calls[i].op = "ua_connect" => HasDestination(calls[i].uri))
    /\ [][(/\ nmsg' = nmsg + 1
           /\ lastIn'.payload.kind = "object"
           /\ lastIn'.payload.command = JNum(100)
           /\ NoAccount(lastIn'.payload.account))
            => (enqueued' = enqueued /\ mq' = mq)]_vars

\* a Connect with an empty account arrived after another Connect had been
\* dispatched to ua_connect
C7_Witness ==
    /\ nmsg >= 1
    /\ lastIn.topic = ControlTopic
    /\ lastIn.payload = Obj(JNum(100), JStr(<<>>))
    /\ \E i \in 1..Len(calls) : calls[i].op = "ua_connect"

\* C8: for every non-empty account string, of any length, decoding a Connect
\* command enqueues Connect with a copy equal to that string, the copy
\* stays within its storage, and ua_connect receives the enqueued string.
C8_ConnectCopiesAccount ==
    /\ [](\A i \in 1..Len(calls) : calls[i].op = "ua_connect" =>
            \E j \in 1..Len(delivered) : delivered[j].data = calls[i].uri)
    /\ [][(/\ nmsg' = nmsg + 1
           /\ lastIn'.topic = ControlTopic
           /\ lastIn'.payload.kind = "object"
           /\ lastIn'.payload.command = JNum(100)
           /\ NonEmptyString(lastIn'.payload.account))
            => /\ enqueued' = Append(enqueued,
                                     Cmd(MQ_CONNECT, Ptr(lastIn'.payload.account.s)))
               /\ overrun' = overrun]_vars

\* C9: a message on any topic other than the control topic, whatever its
\* topic length, is not interpreted: nothing is parsed, enqueued or sent.
C9_OnlyControlTopic ==
    [][(nmsg' = nmsg + 1 /\ lastIn'.topic # ControlTopic)
        => (enqueued' = enqueued /\ mq' = mq /\ sends' = sends
            /\ crashed' = crashed)]_vars

-----------------------------------------------------------------------------
(* Reply messages *)

StatusText(s) == "{ \"status\" : \"" \o s \o "\" }"

EventText(e) == "{ \"event\" : \"" \o e \o "\" }"

ResultText(e, ok) == "{ \"event\" : \"" \o e \o "\", \"success\" : \"" \o ok \o "\" }"

ResultEvents == {"answer", "hold", "resume", "active_call", "registered"}

\* the three shapes of a reply: a status, a fixed event, an event with result
ReplyShapes ==
    {StatusText(s) : s \in {"calling", "ringing", "connected", "closed",
                            "registered", "unregistered"}}
        \cup {EventText(e) : e \in {"mute", "unmute"}}
        \cup {ResultText(e, ok) : e \in ResultEvents, ok \in {"true", "false"}}

\* C11: every message written to the reply topic, by any thread, has one of
\* the three reply shapes; no other text is published.
C11_RepliesHaveShape ==
    \A i \in 1..Len(outbound) :
        outbound[i].topic = ReplyTopic /\ outbound[i].msg \in ReplyShapes

\* the event name of a result-bearing command
OwnEvent(id) ==
    CASE id = MQ_ANSWER -> "answer"
      [] id = MQ_HOLD -> "hold"
      [] id = MQ_RESUME -> "resume"
      [] id = MQ_CALL_STATUS -> "active_call"
      [] id = MQ_REGISTRATION_STATUS -> "registered"

ResultBearing == {MQ_ANSWER, MQ_HOLD, MQ_RESUME, MQ_CALL_STATUS, MQ_REGISTRATION_STATUS}

\* the dispatcher handles the command at the head of the queue in this step
Dispatched(id) ==
    /\ Len(delivered') = Len(delivered) + 1
    /\ delivered'[Len(delivered')].id = id

\* C12: dispatching Answer, Hold, Resume, QueryCallStatus or
\* QueryRegistrationStatus sends exactly one message, and its "event" value
\* is the command's own event name.
C12_ResultNamesOwnEvent ==
    [][\A id \in ResultBearing :
          Dispatched(id) =>
             /\ Len(sends') = Len(sends) + 1
             /\ sends'[Len(sends')].msg \in
                   {ResultText(OwnEvent(id), ok) : ok \in {"true", "false"}}]_vars

-----------------------------------------------------------------------------
(* Results of dispatched commands *)

\* the "success" value of a reply, "none" for a reply without one
Success(msg) ==
    IF msg \in {ResultText(e, "true") : e \in ResultEvents} THEN "true"
    ELSE IF msg \in {ResultText(e, "false") : e \in ResultEvents} THEN "false"
    ELSE "none"

\* the reply sent by the dispatcher in this step reports ok
Reports(ok) ==
    /\ Len(sends') = Len(sends) + 1
    /\ Success(sends'[Len(sends')].msg) = (IF ok THEN "true" ELSE "false")
    /\ sends'[Len(sends')].thread = "engine"

\* C13: QueryCallStatus reports "true" when the current user-agent has a
\* call and "false" when there is none; Answer, Hold and Resume report
\* "true" exactly when the engine operation returned 0, and "false" without
\* a fault when there is no current user-agent or no call.
C13_ResultPolarity ==
    [][/\ Dispatched(MQ_CALL_STATUS) => Reports(lastEnv'.hascall)
       /\ Dispatched(MQ_ANSWER) => Reports(cur # NoUA /\ lastEnv'.ret = 0)
       /\ \A id \in {MQ_HOLD, MQ_RESUME} :
             Dispatched(id) => Reports(lastEnv'.hascall /\ lastEnv'.ret = 0)
       /\ \A id \in ResultBearing : Dispatched(id) => ~crashed']_vars

\* a call-status query was answered "true" for an existing call, then a Hold
\* without a current call was answered "false"
C13_Witness ==
    /\ Len(delivered) = 2 /\ Len(sends) = 2
    /\ delivered[1].id = MQ_CALL_STATUS /\ Success(sends[1].msg) = "true"
    /\ delivered[2].id = MQ_HOLD /\ Success(sends[2].msg) = "false"
    /\ ~lastEnv.hascall
    /\ ~crashed

\* C14: QueryRegistrationStatus reports "true" exactly when at least one
\* user-agent is registered, "false" when none is, whether or not
\* user-agents exist.
C14_RegistrationStatus ==
    [][Dispatched(MQ_REGISTRATION_STATUS) => Reports(lastEnv'.nreg >= 1)]_vars

-----------------------------------------------------------------------------
(* Lifecycle events and the alert sound *)

\* the handler runs for an event of kind ev in this step
Handled(ev) == nev' = nev + 1 /\ lastEv'.ev = ev

\* after the step exactly the alert a is playing, none if a is NoPlay
OnlyPlaying(a) == play' = a /\ held' = (IF a = NoPlay THEN 0 ELSE 1)

Sent(msgs) ==
    /\ Len(sends') = Len(sends) + Len(msgs)
    /\ SubSeq(sends', 1, Len(sends)) = sends
    /\ \A i \in 1..Len(msgs) : sends'[Len(sends) + i].msg = msgs[i]

\* C15: an incoming call makes the signalling user-agent the current one and
\* stops the alert that was playing; in automatic answer mode nothing is
\* played or sent, in manual mode the first call starts the repeating ring
\* and sends "calling", a further call plays the call-waiting cue and sends
\* nothing.
C15_IncomingCall ==
    [][Handled("CALL_INCOMING") =>
         /\ cur' = lastEv'.ua
         /\ ~lastEv'.manual => OnlyPlaying(NoPlay) /\ Sent(<<>>)
         /\ (lastEv'.manual /\ lastEv'.ncalls <= 1) =>
               OnlyPlaying([file |-> "ring.wav", repeat |-> -1])
                  /\ Sent(<<StatusText("calling")>>)
         /\ (lastEv'.manual /\ lastEv'.ncalls > 1) =>
               OnlyPlaying([file |-> "callwaiting.wav", repeat |-> 3])
                  /\ Sent(<<>>)]_vars

\* the ringback of an outgoing call was playing when a call for the other
\* user-agent came in, in automatic answer mode
C15_Witness ==
    /\ nev = 2
    /\ Len(sends) = 1 /\ sends[1].msg = Msg_ringing
    /\ lastEv.ev = "CALL_INCOMING" /\ ~lastEv.manual /\ lastEv.ua = "ua2"
    /\ cur = "ua2"
    /\ play = NoPlay /\ held = 0

\* the tone table of the interface
ToneOf(scode) ==
    CASE scode = 0 -> NoPlay
      [] scode = 404 -> [file |-> "notfound.wav", repeat |-> 1]
      [] scode = 486 -> [file |-> "busy.wav", repeat |-> 1]
      [] scode = 487 -> NoPlay
      [] OTHER -> [file |-> "error.wav", repeat |-> 1]

\* C16: a closed call sends the "closed" status and stops the alert that was
\* playing; then 404 plays the not-found tone once, 486 the busy tone once,
\* any other non-zero code but 487 the error tone once, 487 and 0 no tone.
C16_ClosedTone ==
    [][Handled("CALL_CLOSED") =>
         /\ Sent(<<StatusText("closed")>>)
         /\ OnlyPlaying(ToneOf(lastEv'.scode))]_vars

\* the ringback was playing when the call was closed with 487
C16_Witness ==
    /\ nev = 2
    /\ Len(sends) = 2 /\ sends[1].msg = Msg_ringing /\ sends[2].msg = Msg_closed
    /\ lastEv.ev = "CALL_CLOSED" /\ lastEv.scode = 487
    /\ play = NoPlay /\ held = 0

RECURSIVE ReleasedFirst(_, _)
\* in the operations ops every start comes after a release with no other
\* start in between; released tells whether the handle is known to be clear
ReleasedFirst(ops, released) ==
    IF ops = <<>> THEN TRUE
    ELSE IF Head(ops).op = "release" THEN ReleasedFirst(Tail(ops), TRUE)
         ELSE released /\ ReleasedFirst(Tail(ops), FALSE)

\* C18: at most one alert is held at any time, and it is the one the handle
\* refers to; every handler that starts an alert has released the handle
\* before; the steps of the transport callback thread neither change the
\* handle nor release or start an alert.
C18_OneAlert ==
    /\ [](held <= 1 /\ held = (IF play = NoPlay THEN 0 ELSE 1))
    /\ [][nev' = nev + 1 =>
            ReleasedFirst(ua_event_handler(lastEv'.ua, lastEv'.ev, lastEv'.manual,
                                           lastEv'.ncalls, lastEv'.scode, cur).alert,
                          FALSE)]_vars
    /\ [][nmsg' = nmsg + 1 => UNCHANGED <<play, held>>]_vars

\* the ring of an incoming call was replaced by the ringback, which is the
\* only alert held, and a command was dispatched and another received since
C18_Witness ==
    /\ nev = 2
    /\ Len(sends) >= 2 /\ sends[1].msg = Msg_calling /\ sends[2].msg = Msg_ringing
    /\ play = [file |-> "ringback.wav", repeat |-> -1]
    /\ held = 1
    /\ Len(delivered) >= 1 /\ delivered[Len(delivered)].id = MQ_CONNECT
    /\ mq # <<>>

\* C19: right after the dispatcher has handled Connect, Answer or Hangup no
\* alert is playing, and likewise right after an Established event.
C19_NoAlertAfter ==
    [][/\ \A id \in {MQ_CONNECT, MQ_ANSWER, MQ_HANGUP} :
             Dispatched(id) => OnlyPlaying(NoPlay)
       /\ Handled("CALL_ESTABLISHED") => OnlyPlaying(NoPlay)]_vars

-----------------------------------------------------------------------------
(* Module load *)

\* C20: once the command queue is allocated, module_init returns 0 when the
\* event handler was registered, whether or not the broker could be
\* reached, and returns an error when the registration failed; only a
\* failed queue allocation returns before the other steps.
C20_InitResult ==
    /\ phase = "loaded" /\ evreg => initret = 0
    /\ phase = "loaded" /\ ~evreg => initret # 0
    /\ phase = "aborted" => initret # 0

-----------------------------------------------------------------------------
(* Ownership of command arguments *)

\* C21: the argument string of a Connect command is released once the
\* dispatcher has consumed the command: whenever the queue is empty no
\* argument string allocated by the decoder is still allocated.
C21_ArgumentsReleased == mq = <<>> => nalloc = 0

-----------------------------------------------------------------------------
(* Frame of the lifecycle events *)

\* the status of an event kind that has one
OwnStatus(ev) ==
    CASE ev = "CALL_RINGING" -> "ringing"
      [] ev = "CALL_ESTABLISHED" -> "connected"
      [] ev = "CALL_CLOSED" -> "closed"
      [] ev = "REGISTER_OK" -> "registered"
      [] ev = "UNREGISTERING" -> "unregistered"

StatusEvents ==
    {"CALL_RINGING", "CALL_ESTABLISHED", "CALL_CLOSED", "REGISTER_OK", "UNREGISTERING"}

\* C22: Ringing, Established, Closed, RegisterOk and Unregistering each send
\* their own status and nothing else, Ringing then leaving the repeating
\* ringback as the only alert; the two registration events and every event
\* kind without a case leave the alert alone, the latter sending nothing;
\* the current user-agent changes in no step but that of an IncomingCall
\* event.
C22_EventFrame ==
    [][/\ \A ev \in StatusEvents :
             Handled(ev) => Sent(<<StatusText(OwnStatus(ev))>>)
       /\ Handled("CALL_RINGING") =>
             OnlyPlaying([file |-> "ringback.wav", repeat |-> -1])
       /\ \A ev \in {"REGISTER_OK", "UNREGISTERING"} :
             Handled(ev) => UNCHANGED <<play, held>>
       /\ (nev' = nev + 1 /\ lastEv'.ev \notin StatusEvents \cup {"CALL_INCOMING"}) =>
             Sent(<<>>) /\ UNCHANGED <<play, held, cur>>
       /\ cur' # cur => Handled("CALL_INCOMING")]_vars

\* an event kind without a case came while the ring of an incoming call was
\* playing and a command had been dispatched: the ring and the current
\* user-agent are as the incoming call left them
C22_Witness ==
    /\ nev = 2
    /\ lastEv.ev = "CALL_PROGRESS"
    /\ Len(sends) = 1 /\ sends[1].msg = Msg_calling
    /\ play = [file |-> "ring.wav", repeat |-> -1] /\ held = 1
    /\ cur = "ua2"
    /\ Len(delivered) >= 1

-----------------------------------------------------------------------------
(* Module shutdown *)

\* C23: after module_close the alert is released and the event handler
\* unregistered; a message that arrives afterwards makes the callback send
\* nothing, and the dispatch of a command enqueued after module_close
\* invokes no engine operation and sends nothing.
C23_QuiescentAfterClose ==
    /\ [](phase = "closed" => (play = NoPlay /\ held = 0 /\ ~evreg))
    /\ [][(phase = "closed" /\ nmsg' = nmsg + 1)
            => (sends' = sends /\ calls' = calls)]_vars
    /\ [][(phase = "closed" /\ Len(delivered') > closedAt
                            /\ Len(delivered') = Len(delivered) + 1)
            => (sends' = sends /\ calls' = calls)]_vars

====
